---- MODULE Spec2Model ----
(***************************************************************************)
(* A model of pydantic/_internal/_validate_call.py: ValidateCallWrapper,   *)
(* the call-validating wrapper, as a descriptor (__get__/__set_name__), as *)
(* a callable (__call__) and as a value (__eq__/__hash__).                  *)
(*                                                                         *)
(* Objects live on a heap (a sequence of wrapper records; the index is the *)
(* object's identity).  Types and instances carry attribute tables.        *)
(***************************************************************************)
EXTENDS Integers, Sequences, FiniteSets, TLC

(***************************************************************************)
(* The host object model the wrapper is used in.                           *)
(*   TA   class A, declares nothing special                                *)
(*   TB   class B(A)                                                       *)
(*   TA2  a subclass of A that is itself named "A" (class A(base.A))       *)
(*   TS   class S with __slots__                                           *)
(***************************************************************************)
Types == {"TA", "TB", "TA2", "TS"}

TypeName == [t \in Types |-> CASE t = "TA" -> "A" [] t = "TB" -> "B"
                                 [] t = "TA2" -> "A" [] t = "TS" -> "S"]

BaseOf == [t \in Types |-> CASE t = "TB" -> "TA" [] t = "TA2" -> "TA"
                               [] OTHER -> "object"]

Objs == {"oa", "ob", "oa2", "os"}

ClassOf == [o \in Objs |-> CASE o = "oa" -> "TA" [] o = "ob" -> "TB"
                                [] o = "oa2" -> "TA2" [] o = "os" -> "TS"]

\* the types in whose body the wrapped function may be declared
Owners == {"TA", "TS"}

Names == {"f", "g"}

Configs == {"None", "strict"}

\* bounds of the model
MaxWrappers == 3
MaxEffects == 2
MaxCallWrappers == 2
MaxFailWrappers == 2
NThreads == 2

Threads == 1..NThreads

None == "None"

VARIABLES
    heap,       \* the ValidateCallWrapper objects constructed so far
    cls_dict,   \* each type's own attribute table (its __dict__)
    obj_dict,   \* each instance's attribute table (its __dict__)
    owner,      \* the type the wrapped function is declared in
    phase,      \* "new": wrapper built, not yet attached; "attached"
    last,       \* the latest attribute access and what it returned
    prev,       \* the access before it
    call,       \* the latest call of a wrapper and how far it has got
    effects,    \* how many times the body of the wrapped function has run
    made,       \* the constructor arguments of the wrappers built by Wrap
    thr         \* each thread's position in a concurrent attribute access

bindvars == <<heap, cls_dict, obj_dict, owner, phase, last, prev>>
callvars == <<call, effects>>
vars == <<heap, cls_dict, obj_dict, owner, phase, last, prev, call, effects,
          made, thr>>

(***************************************************************************)
(* Callables.  A function is known by its __name__, the first component of *)
(* its __qualname__ (the name of the type whose body declares it), whether *)
(* it is a coroutine function, and its receiver: None for the plain        *)
(* function, an instance for a bound method.  A functools.partial of a     *)
(* callable is that callable's record with partial set: name, qualroot and *)
(* coroutine then describe its func, the partial has no name of its own.   *)
(***************************************************************************)
Function(root, coro) ==
    [name |-> "f", qualroot |-> root, coroutine |-> coro, self |-> None,
     partial |-> FALSE]

NoCallable ==
    [name |-> "", qualroot |-> "", coroutine |-> FALSE, self |-> None,
     partial |-> FALSE]

\* functools.partial(function, ...)
Partial(function) == [function EXCEPT !.partial = TRUE]

\* function.func of a partial
Func(function) == [function EXCEPT !.partial = FALSE]

\* the attributes of a callable object itself.  A function has its own; a
\* partial object has the doc and module of functools.partial, and no
\* annotations
AttrName(c) == c.name
AttrQualname(c) == c.qualroot \o "." \o c.name
AttrModule(c) == IF c.partial THEN "functools" ELSE "app"
AttrDoc(c) == IF c.partial THEN "partial(func, *args, **keywords)"
              ELSE "doc of " \o AttrQualname(c)
AttrAnnotations(c) == IF c.partial THEN "none" ELSE "x: int, return: int"

(***************************************************************************)
(* Values an attribute table can hold (and an access can return).          *)
(***************************************************************************)
Absent == [kind |-> "absent", id |-> 0, fn |-> NoCallable]
WrapperRef(i) == [kind |-> "wrapper", id |-> i, fn |-> NoCallable]
PlainRef(f) == [kind |-> "function", id |-> 0, fn |-> f]

EmptyDict == [n \in Names |-> Absent]

(***************************************************************************)
(* ValidateCallWrapper.__init__                                            *)
(***************************************************************************)
\* inspect.iscoroutinefunction(self.raw_function); it looks through bound methods
iscoroutinefunction(function) == function.coroutine

\* a plausible slip: validate_return is ignored, no return validator is built
ReturnValidatorNever(function, validate_return) == None

\* a plausible slip: the coroutine branch is missing, the validator is applied
\* to whatever the call returns
ReturnValidatorAlwaysImmediate(function, validate_return) ==
    IF validate_return THEN "immediate" ELSE None

\* which __return_pydantic_validator__ the constructor installs
ReturnValidatorFor(function, validate_return) ==
    IF validate_return
    THEN IF iscoroutinefunction(function) THEN "deferred" ELSE "immediate"
    ELSE None

\* isinstance(function, partial)
IsPartial(function) == function.partial

\* a plausible slip: the names are wrapped, module, annotations and doc are
\* read from the partial object instead of its func
IdentityOfPartialItself(function) ==
    [name        |-> IF IsPartial(function)
                     THEN "partial(" \o AttrName(Func(function)) \o ")"
                     ELSE AttrName(function),
     qualname    |-> IF IsPartial(function)
                     THEN "partial(" \o AttrQualname(Func(function)) \o ")"
                     ELSE AttrQualname(function),
     annotations |-> AttrAnnotations(function),
     module      |-> AttrModule(function),
     doc         |-> AttrDoc(function)]

\* __name__, __qualname__, __annotations__, __module__ and __doc__ of the wrapper
Identity(function) ==
    IF IsPartial(function)
    THEN LET func == Func(function)
         IN  [name        |-> "partial(" \o AttrName(func) \o ")",
              qualname    |-> "partial(" \o AttrQualname(func) \o ")",
              annotations |-> AttrAnnotations(func),
              module      |-> AttrModule(func),
              doc         |-> AttrDoc(func)]
    ELSE [name        |-> AttrName(function),
          qualname    |-> AttrQualname(function),
          annotations |-> AttrAnnotations(function),
          module      |-> AttrModule(function),
          doc         |-> AttrDoc(function)]

Construct(function, config, validate_return) ==
    [raw_function     |-> function,
     _config          |-> config,
     _validate_return |-> validate_return,
     identity         |-> Identity(function),
     return_validator |-> ReturnValidatorFor(function, validate_return),
     _name            |-> None]

(***************************************************************************)
(* The host's attribute lookup.                                            *)
(***************************************************************************)
RECURSIVE MROLookup(_, _, _)
\* the first entry under name n in the own tables of t and its bases
MROLookup(d, t, n) ==
    IF t = "object" THEN Absent
    ELSE IF d[t][n].kind # "absent" THEN d[t][n]
    ELSE MROLookup(d, BaseOf[t], n)

\* objtype.__getattribute__(objtype, name) is object.__getattribute__ applied to
\* the type object: it reads the type's own table and runs no descriptor
TypeGetattribute(objtype, name) == cls_dict[objtype][name]

\* hasattr(x, '__slots__'), x an instance, a type or None
HasSlotsAttr(x) ==
    IF x = None THEN FALSE
    ELSE IF x \in Objs THEN ClassOf[x] = "TS"
    ELSE x = "TS"

(***************************************************************************)
(* ValidateCallWrapper.__get__(self, obj, objtype), self = heap[w]         *)
(***************************************************************************)
\* a plausible slip: the class-level branch takes the raw callable's name
\* whether or not a name is already recorded
NameAlwaysFromCallable(w, obj) ==
    IF obj = None
    THEN heap[w].raw_function.name
    ELSE heap[w]._name

\* self._name after the fallback of the class-level branch
NameAfterFallback(w, obj) ==
    IF obj = None /\ heap[w]._name = None
    THEN heap[w].raw_function.name
    ELSE heap[w]._name

\* a plausible slip: the class-level branch never looks the type's entry up
\* and always goes on to bind and store
NeverShortCircuits(w, obj, objtype) == FALSE

\* the class-level branch returns the type's own entry when there is one
ShortCircuits(w, obj, objtype) ==
    /\ obj = None
    /\ TypeGetattribute(objtype, NameAfterFallback(w, obj)).kind # "absent"

\* self.raw_function.__get__(obj, objtype): a function binds to an instance,
\* stays itself for a class-level access; a bound method stays itself
FunctionGet(function, obj) ==
    IF function.self # None \/ obj = None
    THEN function
    ELSE [function EXCEPT !.self = obj]

has_slots(obj, objtype) == HasSlotsAttr(obj) \/ HasSlotsAttr(objtype)

\* obj.__class__ (a type object) through an instance, objtype.__name__ (a str)
\* through a class
calling_class(obj, objtype) ==
    IF obj # None
    THEN [kind |-> "type", val |-> ClassOf[obj]]
    ELSE [kind |-> "str", val |-> TypeName[objtype]]

\* self.raw_function.__qualname__.split('.')[0], a str
raw_function_class(w) == [kind |-> "str", val |-> heap[w].raw_function.qualroot]

\* the condition under which the result is bound to the instance or the class
ShouldCache(w, obj, objtype) ==
    /\ NameAfterFallback(w, obj) # None
    /\ ~(has_slots(obj, objtype) \/ calling_class(obj, objtype) # raw_function_class(w))

\* the new wrapper __get__ builds
BoundWrapper(w, obj) ==
    Construct(FunctionGet(heap[w].raw_function, obj),
              heap[w]._config, heap[w]._validate_return)

(***************************************************************************)
(* ValidateCallWrapper.__eq__ and __hash__                                 *)
(***************************************************************************)
\* hash(callable): a function hashes by identity, a bound method by its
\* function and its receiver; distinct callables may collide
CallableHash(function) ==
    (IF function.qualroot = "A" THEN 1 ELSE 2)
        + (IF function.self = None THEN 0 ELSE 4)

\* a plausible slip: the validate_return flags are not compared
WrapperEqIgnoringFlag(a, b) ==
    /\ a.raw_function = b.raw_function
    /\ a._config = b._config

WrapperEq(a, b) ==
    /\ a.raw_function = b.raw_function
    /\ a._config = b._config
    /\ a._validate_return = b._validate_return

WrapperHash(a) == CallableHash(a.raw_function)

(***************************************************************************)
(* The record of one attribute access.                                     *)
(*   via     the wrapper whose __get__ ran (0: none ran)                   *)
(*   built   the wrapper __get__ constructed (0: none)                     *)
(*   stored  where the result was bound: None, "instance" or "class"       *)
(***************************************************************************)
NoAccess ==
    [kind |-> "none", target |-> None, name |-> None, ret |-> Absent,
     exc |-> None, via |-> 0, built |-> 0, stored |-> None]

Access(obj, objtype, n, ret, exc, via, built, stored) ==
    [kind   |-> IF obj = None THEN "class" ELSE "instance",
     target |-> IF obj = None THEN objtype ELSE obj,
     name |-> n, ret |-> ret, exc |-> exc, via |-> via, built |-> built,
     stored |-> stored]

\* the heap once __get__ has recorded the fallback name on wrapper w
HeapNamed(w, obj) == [heap EXCEPT ![w]._name = NameAfterFallback(w, obj)]

\* a plausible slip: rebinding in place, the accessed wrapper takes the bound
\* callable instead of a new wrapper being constructed for it
HeapAfterBindInPlace(w, obj) ==
    [HeapNamed(w, obj) EXCEPT ![w].raw_function = FunctionGet(heap[w].raw_function, obj)]

\* the heap once __get__ has constructed result = self.__class__(bound_function, ...)
HeapAfterBind(w, obj) == Append(HeapNamed(w, obj), BoundWrapper(w, obj))

\* __get__ of wrapper w, reached by looking up n on obj (or on objtype when
\* obj is None)
WrapperGet(w, obj, objtype, n) ==
    LET name  == NameAfterFallback(w, obj)
        new   == Len(heap) + 1
    IN  IF ShortCircuits(w, obj, objtype)
        THEN /\ heap' = HeapNamed(w, obj)
             /\ last' = Access(obj, objtype, n, TypeGetattribute(objtype, name),
                               None, w, 0, None)
             /\ UNCHANGED <<cls_dict, obj_dict>>
        ELSE /\ Len(heap) < MaxWrappers
             /\ heap' = HeapAfterBind(w, obj)
             /\ IF ShouldCache(w, obj, objtype)
                THEN IF obj # None
                     THEN \* object.__setattr__(obj, self._name, result)
                          /\ obj_dict' = [obj_dict EXCEPT ![obj][name] = WrapperRef(new)]
                          /\ last' = Access(obj, objtype, n, WrapperRef(new),
                                            None, w, new, "instance")
                          /\ UNCHANGED cls_dict
                     ELSE \* object.__setattr__(objtype, self._name, result):
                          \* object.__setattr__ refuses a type object and raises
                          \* TypeError; nothing is stored, nothing is returned
                          /\ last' = Access(obj, objtype, n, Absent,
                                            "TypeError", w, new, None)
                          /\ UNCHANGED <<cls_dict, obj_dict>>
                ELSE /\ last' = Access(obj, objtype, n, WrapperRef(new),
                                       None, w, new, None)
                     /\ UNCHANGED <<cls_dict, obj_dict>>

\* what the construction of the bound wrapper raises when it fails: the
\* signature of the bound callable or its annotations admit no schema
BuildExceptions == {"ValueError", "PydanticUndefinedAnnotation"}

\* a plausible slip: the wrapper whose construction failed stays alive
HeapKeepsFailedBind(w, obj) == Append(HeapNamed(w, obj), BoundWrapper(w, obj))

\* the heap once self.__class__(bound_function, ...) has raised: the fallback
\* name is recorded, no wrapper came into being
HeapAfterFailedBind(w, obj) == HeapNamed(w, obj)

\* __get__ of wrapper w when the construction of the bound wrapper raises exc:
\* the exception leaves __get__ before the guard and the stores
WrapperGetFails(w, obj, objtype, n, exc) ==
    /\ ~ShortCircuits(w, obj, objtype)
    /\ heap' = HeapAfterFailedBind(w, obj)
    /\ last' = Access(obj, objtype, n, Absent, exc, w, 0, None)
    /\ UNCHANGED <<cls_dict, obj_dict>>

\* an entry found by the host's lookup that is no wrapper: absent raises
\* AttributeError, a plain function binds as functions do
PlainGet(e, obj, objtype, n) ==
    /\ last' = IF e.kind = "absent"
               THEN Access(obj, objtype, n, Absent, "AttributeError", 0, 0, None)
               ELSE Access(obj, objtype, n, PlainRef(FunctionGet(e.fn, obj)),
                           None, 0, 0, None)
    /\ UNCHANGED <<heap, cls_dict, obj_dict>>

(***************************************************************************)
(* Values, and the validator engine.  The wrapped function is              *)
(*     def f(self, x: int) -> int                                          *)
(* A value is an int or a str; a str is numeric (v >= 0) or not (v < 0).   *)
(***************************************************************************)
IntVal(n) == [t |-> "int", v |-> n]
StrVal(n) == [t |-> "str", v |-> n]
NoValue == [t |-> "none", v |-> 0]
\* the coroutine object a coroutine function returns when it is called
CoroutineObject == [t |-> "coroutine", v |-> 0]

ArgValues == {IntVal(1), StrVal(2), StrVal(-1)}
OutValues == {IntVal(3), StrVal(4), StrVal(-1)}

\* SchemaValidator.validate_python against the schema of int: an int passes,
\* a numeric str is coerced to its int unless the config is strict, anything
\* else fails (ValidationError)
ValidateValue(x, config) ==
    IF x.t = "int" THEN [ok |-> TRUE, val |-> x]
    ELSE IF x.t = "str" /\ x.v >= 0 /\ config # "strict"
         THEN [ok |-> TRUE, val |-> IntVal(x.v)]
    ELSE [ok |-> FALSE, val |-> NoValue]

(***************************************************************************)
(* ValidateCallWrapper.__call__                                            *)
(*   events   what ran, in order: "validate_args", then "invoke" (a        *)
(*            coroutine function was called and returned its coroutine) or *)
(*            "body" (the function's body ran), then "validate_return"     *)
(*   outcome  "returned", "pending" (an awaitable was returned) or         *)
(*            "ValidationError"                                            *)
(*   task     the awaitable returned: "none", "coroutine" (the function's  *)
(*            own) or "return_val_wrapper"; awaited tells whether it has   *)
(*            been driven to its end                                       *)
(***************************************************************************)
NoCall ==
    [w |-> 0, arg |-> NoValue, out |-> NoValue, events |-> <<>>,
     outcome |-> "none", value |-> NoValue, raised_at |-> None,
     task |-> "none", awaited |-> FALSE, effects_before |-> 0]

CallRecord(w, arg, out, events, outcome, value, raised_at, task) ==
    [w |-> w, arg |-> arg, out |-> out, events |-> events,
     outcome |-> outcome, value |-> value, raised_at |-> raised_at,
     task |-> task, awaited |-> FALSE, effects_before |-> effects]

\* a plausible slip: the result of the argument validator is returned as it
\* is, the return validator is not consulted
CallResultUnvalidated(w, arg, out) ==
    LET self == heap[w]
        args == ValidateValue(arg, self._config)
        coro == self.raw_function.coroutine
    IN  IF ~args.ok
        THEN CallRecord(w, arg, out, <<"validate_args">>, "ValidationError",
                        NoValue, "call", "none")
        ELSE IF coro
        THEN CallRecord(w, arg, out, <<"validate_args", "invoke">>, "pending",
                        CoroutineObject, None, "coroutine")
        ELSE CallRecord(w, arg, out, <<"validate_args", "body">>, "returned",
                        out, None, "none")

\* a plausible slip: the function is called with the raw arguments before the
\* validator has seen them
CallResultInvokesFirst(w, arg, out) ==
    LET self == heap[w]
        args == ValidateValue(arg, self._config)
    IN  IF ~args.ok
        THEN CallRecord(w, arg, out, <<"body", "validate_args">>, "ValidationError",
                        NoValue, "call", "none")
        ELSE CallResultUnvalidated(w, arg, out)

\* the call of wrapper w with argument arg, the function's body producing out
CallResult(w, arg, out) ==
    LET self == heap[w]
        \* res = self.__pydantic_validator__.validate_python(ArgsKwargs(args, kwargs))
        \* the engine validates the arguments and, if they pass, calls the function
        args == ValidateValue(arg, self._config)
        coro == self.raw_function.coroutine
        res  == IF coro THEN CoroutineObject ELSE out
        ran  == IF coro THEN <<"validate_args", "invoke">> ELSE <<"validate_args", "body">>
    IN  IF ~args.ok
        THEN CallRecord(w, arg, out, <<"validate_args">>, "ValidationError",
                        NoValue, "call", "none")
        ELSE IF self.return_validator = "immediate"
        THEN \* return self.__return_pydantic_validator__(res), validator.validate_python
             LET ret == ValidateValue(res, self._config)
             IN  IF ret.ok
                 THEN CallRecord(w, arg, out, ran \o <<"validate_return">>,
                                 "returned", ret.val, None, "none")
                 ELSE CallRecord(w, arg, out, ran \o <<"validate_return">>,
                                 "ValidationError", NoValue, "call", "none")
        ELSE IF self.return_validator = "deferred"
        THEN \* return_val_wrapper(res): a coroutine, nothing of it has run
             CallRecord(w, arg, out, ran, "pending", CoroutineObject, None,
                        "return_val_wrapper")
        ELSE \* return res
             IF coro
             THEN CallRecord(w, arg, out, ran, "pending", res, None, "coroutine")
             ELSE CallRecord(w, arg, out, ran, "returned", res, None, "none")

\* the number of bodies a call runs at call time
BodiesRun(c) == Cardinality({i \in DOMAIN c.events : c.events[i] = "body"})

\* the awaitable of the latest call driven to its end:
\*   the function's own coroutine runs the body and returns its result;
\*   return_val_wrapper awaits aw (the body runs), then validates the result
AwaitResult(c) ==
    LET self == heap[c.w]
        ret  == ValidateValue(c.out, self._config)
        done == [c EXCEPT !.awaited = TRUE, !.events = @ \o <<"body">>]
    IN  IF c.task = "coroutine"
        THEN [done EXCEPT !.outcome = "returned", !.value = c.out]
        ELSE IF ret.ok
        THEN [done EXCEPT !.events = @ \o <<"validate_return">>,
                          !.outcome = "returned", !.value = ret.val]
        ELSE [done EXCEPT !.events = @ \o <<"validate_return">>,
                          !.outcome = "ValidationError", !.value = NoValue,
                          !.raised_at = "await"]

\* what the await of the function's own coroutine can raise instead of
\* delivering a result: cancellation, or an exception of the body
AwaitExceptions == {"CancelledError", "RuntimeError"}

\* a plausible slip: the await is guarded and the validator runs on whatever
\* is at hand, the exception of the awaited coroutine being lost
AwaitRaisesValidatesAnyway(c, exc) ==
    [c EXCEPT !.awaited = TRUE,
              !.events = @ \o <<"body", exc, "validate_return">>,
              !.outcome = "ValidationError", !.value = NoValue,
              !.raised_at = "await"]

\* the awaitable of the latest call driven until "await aw" raises exc: in
\* "validator.validate_python(await aw)" the argument is evaluated first, so
\* the exception leaves return_val_wrapper before validate_python is called;
\* the function's own coroutine raises it to its awaiter directly
AwaitRaisesResult(c, exc) ==
    [c EXCEPT !.awaited = TRUE,
              !.events = @ \o <<"body", exc>>,
              !.outcome = exc, !.value = NoValue,
              !.raised_at = "await"]

(***************************************************************************)
(* Actions                                                                 *)
(***************************************************************************)
\* class body "@validate_call def f": the type stores the wrapper under "f"
\* and notifies it: __set_name__(owner, "f")
ClassBody ==
    /\ phase = "new"
    /\ heap' = [heap EXCEPT ![1]._name = "f"]
    /\ cls_dict' = [cls_dict EXCEPT ![owner]["f"] = WrapperRef(1)]
    /\ phase' = "attached"
    /\ UNCHANGED <<obj_dict, owner, last, prev, callvars, made, thr>>

\* class body "@validate_call def f" followed by "g = f": the type stores the
\* one wrapper under both names and notifies it once per name, in the order of
\* the class body: __set_name__(owner, "f"), then __set_name__(owner, "g")
ClassBodyAlias ==
    /\ phase = "new"
    /\ heap' = [heap EXCEPT ![1]._name = "g"]
    /\ cls_dict' = [cls_dict EXCEPT ![owner] = [m \in Names |-> WrapperRef(1)]]
    /\ phase' = "attached"
    /\ UNCHANGED <<obj_dict, owner, last, prev, callvars, made, thr>>

\* "T.n = validate_call(T.f)" after the class exists: no __set_name__.  With
\* n = "f" the wrapper replaces the function it wraps, with n = "g" it stands
\* beside it
DynamicAttach(n) ==
    /\ phase = "new"
    /\ cls_dict' = [cls_dict EXCEPT ![owner] =
                       [m \in Names |-> IF m = n THEN WrapperRef(1)
                                        ELSE IF m = "f" THEN PlainRef(heap[1].raw_function)
                                        ELSE Absent]]
    /\ phase' = "attached"
    /\ UNCHANGED <<heap, obj_dict, owner, last, prev, callvars, made, thr>>

\* o.n
GetInstance(o, n) ==
    /\ phase = "attached"
    /\ prev' = last
    /\ UNCHANGED <<owner, phase, callvars, made, thr>>
    /\ IF obj_dict[o][n].kind # "absent"
       THEN /\ last' = Access(o, ClassOf[o], n, obj_dict[o][n], None, 0, 0, None)
            /\ UNCHANGED <<heap, cls_dict, obj_dict>>
       ELSE LET e == MROLookup(cls_dict, ClassOf[o], n)
            IN  IF e.kind = "wrapper"
                THEN WrapperGet(e.id, o, ClassOf[o], n)
                ELSE PlainGet(e, o, ClassOf[o], n)

\* T.n
GetClass(t, n) ==
    /\ phase = "attached"
    /\ prev' = last
    /\ UNCHANGED <<owner, phase, callvars, made, thr>>
    /\ LET e == MROLookup(cls_dict, t, n)
       IN  IF e.kind = "wrapper"
           THEN WrapperGet(e.id, None, t, n)
           ELSE PlainGet(e, None, t, n)

\* o.n, the construction of the bound wrapper raising exc
GetInstanceFails(o, n, exc) ==
    /\ phase = "attached"
    /\ prev' = last
    /\ UNCHANGED <<owner, phase, callvars, made, thr>>
    /\ obj_dict[o][n].kind = "absent"
    /\ LET e == MROLookup(cls_dict, ClassOf[o], n)
       IN  /\ e.kind = "wrapper"
           /\ WrapperGetFails(e.id, o, ClassOf[o], n, exc)

\* T.n, the construction of the bound wrapper raising exc
GetClassFails(t, n, exc) ==
    /\ phase = "attached"
    /\ prev' = last
    /\ UNCHANGED <<owner, phase, callvars, made, thr>>
    /\ LET e == MROLookup(cls_dict, t, n)
       IN  /\ e.kind = "wrapper"
           /\ WrapperGetFails(e.id, None, t, n, exc)

\* w(arg): one call of wrapper w
Call(w, arg, out) ==
    /\ effects < MaxEffects
    /\ call' = CallResult(w, arg, out)
    /\ effects' = effects + BodiesRun(CallResult(w, arg, out))
    /\ UNCHANGED <<bindvars, made, thr>>

\* "await" of the awaitable the latest call returned
Await ==
    /\ call.task # "none" /\ ~call.awaited
    /\ effects < MaxEffects
    /\ call' = AwaitResult(call)
    /\ effects' = effects + 1
    /\ UNCHANGED <<bindvars, made, thr>>

\* "await" of the awaitable the latest call returned, the wrapped coroutine
\* being cancelled or raising
AwaitRaises(exc) ==
    /\ call.task # "none" /\ ~call.awaited
    /\ effects < MaxEffects
    /\ call' = AwaitRaisesResult(call, exc)
    /\ effects' = effects + 1
    /\ UNCHANGED <<bindvars, made, thr>>

\* validate_call(function, config=config, validate_return=validate_return):
\* one more wrapper, around a function or around a method bound to an instance
WrapCallables ==
    {[Function("A", coro) EXCEPT !.self = self] :
        coro \in BOOLEAN, self \in {None, "oa"}}

\* partial applications of the plain functions
PartialCallables == {Partial(Function("A", coro)) : coro \in BOOLEAN}

Wrap(function, config, validate_return) ==
    /\ Len(heap) < MaxWrappers
    /\ heap' = Append(heap, Construct(function, config, validate_return))
    /\ made' = Append(made, <<function, config, validate_return>>)
    /\ UNCHANGED <<cls_dict, obj_dict, owner, phase, last, prev, callvars, thr>>

(***************************************************************************)
(* Concurrent accesses: every thread looks the same attribute up on the    *)
(* same instance or class; the steps of the lookup and of __get__          *)
(* interleave.                                                             *)
(*   "lookup"  the host's lookup: instance table, then the types' tables   *)
(*   "enter"   __get__, the class-level branch (name fallback, re-resolve) *)
(*   "bind"    bound_function = ...; result = self.__class__(...)          *)
(*   "cache"   the guard, object.__setattr__, return result                *)
(***************************************************************************)
IdleThread ==
    [pc |-> "idle", obj |-> None, objtype |-> None, n |-> None, w |-> 0,
     result |-> 0, ret |-> Absent, exc |-> None, steps |-> 0]

\* thread record r, one more step of its access taken
Stepped(r) == [r EXCEPT !.steps = @ + 1]

\* all threads start the access of n through instance obj (None: through objtype)
TStart(obj, objtype, n) ==
    /\ phase = "attached"
    /\ \A t \in Threads : thr[t].pc = "idle"
    /\ thr' = [t \in Threads |->
                 [IdleThread EXCEPT !.pc = "lookup", !.obj = obj,
                                    !.objtype = objtype, !.n = n]]
    /\ UNCHANGED <<bindvars, callvars, made>>

TLookup(t) ==
    LET me == thr[t]
        e  == MROLookup(cls_dict, me.objtype, me.n)
    IN  /\ me.pc = "lookup"
        /\ thr' = [thr EXCEPT ![t] = Stepped(
                     IF me.obj # None /\ obj_dict[me.obj][me.n].kind # "absent"
                     THEN [me EXCEPT !.pc = "done", !.ret = obj_dict[me.obj][me.n]]
                     ELSE IF e.kind = "wrapper"
                     THEN [me EXCEPT !.pc = "enter", !.w = e.id]
                     ELSE IF e.kind = "absent"
                     THEN [me EXCEPT !.pc = "done", !.exc = "AttributeError"]
                     ELSE [me EXCEPT !.pc = "done",
                                     !.ret = PlainRef(FunctionGet(e.fn, me.obj))])]
        /\ UNCHANGED <<bindvars, callvars, made>>

\* a plausible slip: the class-level branch re-resolves with getattr(objtype,
\* name), which runs the binding protocol of the wrapper it finds
EnterByGetattr(me) ==
    LET e == TypeGetattribute(me.objtype, NameAfterFallback(me.w, me.obj))
    IN  IF me.obj = None /\ e.kind = "wrapper"
        THEN [me EXCEPT !.pc = "enter", !.w = e.id]
        ELSE IF ShortCircuits(me.w, me.obj, me.objtype)
        THEN [me EXCEPT !.pc = "done", !.ret = e]
        ELSE [me EXCEPT !.pc = "bind"]

\* the thread once it has gone through the class-level branch of __get__: it
\* returns the entry read from the type's own table, or goes on to bind
AfterEnter(me) ==
    IF ShortCircuits(me.w, me.obj, me.objtype)
    THEN [me EXCEPT !.pc = "done",
                    !.ret = TypeGetattribute(me.objtype,
                                NameAfterFallback(me.w, me.obj))]
    ELSE [me EXCEPT !.pc = "bind"]

TEnter(t) ==
    LET me == thr[t]
    IN  /\ me.pc = "enter"
        /\ heap' = HeapNamed(me.w, me.obj)
        /\ thr' = [thr EXCEPT ![t] = Stepped(AfterEnter(me))]
        /\ UNCHANGED <<cls_dict, obj_dict, owner, phase, last, prev, callvars, made>>

TBind(t) ==
    LET me == thr[t]
    IN  /\ me.pc = "bind"
        /\ Len(heap) < MaxWrappers
        /\ heap' = HeapAfterBind(me.w, me.obj)
        /\ thr' = [thr EXCEPT ![t] =
                     Stepped([me EXCEPT !.pc = "cache", !.result = Len(heap) + 1])]
        /\ UNCHANGED <<cls_dict, obj_dict, owner, phase, last, prev, callvars, made>>

TCache(t) ==
    LET me == thr[t]
    IN  /\ me.pc = "cache"
        /\ IF ShouldCache(me.w, me.obj, me.objtype)
           THEN IF me.obj # None
                THEN /\ obj_dict' = [obj_dict EXCEPT ![me.obj][heap[me.w]._name] =
                                        WrapperRef(me.result)]
                     /\ thr' = [thr EXCEPT ![t] =
                                  Stepped([me EXCEPT !.pc = "done",
                                                     !.ret = WrapperRef(me.result)])]
                ELSE /\ thr' = [thr EXCEPT ![t] =
                                  Stepped([me EXCEPT !.pc = "done", !.exc = "TypeError"])]
                     /\ UNCHANGED obj_dict
           ELSE /\ thr' = [thr EXCEPT ![t] =
                             Stepped([me EXCEPT !.pc = "done",
                                                !.ret = WrapperRef(me.result)])]
                /\ UNCHANGED obj_dict
        /\ UNCHANGED <<heap, cls_dict, owner, phase, last, prev, callvars, made>>

Init ==
    /\ owner \in Owners
    /\ \E coro \in BOOLEAN, config \in Configs, validate_return \in BOOLEAN :
          /\ heap = <<Construct(Function(TypeName[owner], coro), config, validate_return)>>
          /\ made = <<<<Function(TypeName[owner], coro), config, validate_return>>>>
    /\ cls_dict = [t \in Types |-> EmptyDict]
    /\ obj_dict = [o \in Objs |-> EmptyDict]
    /\ phase = "new"
    /\ last = NoAccess
    /\ prev = NoAccess
    /\ call = NoCall
    /\ effects = 0
    /\ thr = [t \in Threads |-> IdleThread]

Next ==
    \/ ClassBody
    \/ ClassBodyAlias
    \/ \E n \in Names : DynamicAttach(n)
    \/ \E o \in Objs, n \in Names : GetInstance(o, n)
    \/ \E t \in Types, n \in Names : GetClass(t, n)

Spec == Init /\ [][Next]_vars

\* accesses any of which may fail while it constructs the bound wrapper; one
\* plain function, wrapped with the default config and no return validation
InitFail ==
    /\ Init
    /\ heap[1] = Construct(Function(TypeName[owner], FALSE), None, FALSE)

NextFail ==
    \/ ClassBody
    \/ ClassBodyAlias
    \/ \E n \in Names : DynamicAttach(n)
    \/ \E o \in Objs, n \in Names : Len(heap) < MaxFailWrappers /\ GetInstance(o, n)
    \/ \E t \in Types, n \in Names : Len(heap) < MaxFailWrappers /\ GetClass(t, n)
    \/ \E o \in Objs, n \in Names, exc \in BuildExceptions : GetInstanceFails(o, n, exc)
    \/ \E t \in Types, n \in Names, exc \in BuildExceptions : GetClassFails(t, n, exc)

SpecFail == InitFail /\ [][NextFail]_vars

\* calls of the wrappers, once attached and possibly bound
NextCall ==
    \/ ClassBody
    \/ \E o \in Objs : Len(heap) < MaxCallWrappers /\ GetInstance(o, "f")
    \/ \E w \in DOMAIN heap, arg \in ArgValues, out \in OutValues : Call(w, arg, out)
    \/ Await

SpecCall == Init /\ [][NextCall]_vars

\* calls whose awaited coroutine may also be cancelled or raise
NextAwait ==
    \/ ClassBody
    \/ \E o \in Objs : Len(heap) < MaxCallWrappers /\ GetInstance(o, "f")
    \/ \E w \in DOMAIN heap, arg \in ArgValues, out \in OutValues : Call(w, arg, out)
    \/ Await
    \/ \E exc \in AwaitExceptions : AwaitRaises(exc)

SpecAwait == Init /\ [][NextAwait]_vars

\* wrappers built side by side, to be compared
NextWrap ==
    \/ ClassBody
    \/ \E function \in WrapCallables, config \in Configs, validate_return \in BOOLEAN :
          Wrap(function, config, validate_return)
    \/ \E function \in PartialCallables, config \in Configs, validate_return \in BOOLEAN :
          Wrap(function, config, validate_return)

SpecWrap == Init /\ [][NextWrap]_vars

\* one round of concurrent accesses of one attribute of one instance or class
NextConc ==
    \/ ClassBody
    \/ \E n \in Names : DynamicAttach(n)
    \/ \E o \in Objs, n \in Names : TStart(o, ClassOf[o], n)
    \/ \E c \in Types, n \in Names : TStart(None, c, n)
    \/ \E t \in Threads : TLookup(t)
    \/ \E t \in Threads : TEnter(t)
    \/ \E t \in Threads : TBind(t)
    \/ \E t \in Threads : TCache(t)

SpecConc == Init /\ [][NextConc]_vars

(***************************************************************************)
(* Properties of the binding protocol                                      *)
(***************************************************************************)
\* the type through which an access went
AccessType(a) == IF a.kind = "instance" THEN ClassOf[a.target] ELSE a.target

\* the caching preconditions as the design states them: the attribute name is
\* known, nothing restricts dynamic attributes, the declaring type is the
\* accessing type
CachingPreconditions(a) ==
    /\ a.via # 0
    /\ heap[a.via]._name # None
    /\ ~HasSlotsAttr(AccessType(a))
    /\ AccessType(a) = owner

\* C1: under the caching preconditions, two successive accesses of the
\* attribute through the same instance return the identical object: the first
\* stores the Bound wrapper on the instance, the second returns that object.
C1_SecondAccessIdentical ==
    ( /\ prev.kind = "instance" /\ last.kind = "instance"
      /\ prev.target = last.target /\ prev.name = last.name
      /\ CachingPreconditions(prev) )
    => /\ prev.stored = "instance"
       /\ last.ret = prev.ret
       /\ obj_dict[last.target][last.name] = prev.ret

Subtypes == {"TB", "TA2"}

\* C2: an access of a method declared in the base type through a subclass or
\* a subclass instance never returns or stores a wrapper on the base class,
\* and yields its own Bound wrapper around the callable bound to that
\* subclass or subclass instance.
C2_SubclassOwnWrapper ==
    ( /\ last.via # 0 /\ owner = "TA" /\ AccessType(last) \in Subtypes )
    => /\ \A n \in Names : cls_dict["TA"][n].kind = "wrapper" => cls_dict["TA"][n].id = 1
       /\ last.exc = None
       /\ last.built # 0
       /\ last.ret = WrapperRef(last.built)
       /\ heap[last.built].raw_function =
             FunctionGet(heap[last.via].raw_function,
                         IF last.kind = "instance" THEN last.target ELSE None)

\* C3: a Bound wrapper is stored only by an access for which all three guards
\* hold; an access for which a guard fails returns a Bound wrapper and stores
\* nothing.
C3_StoreOnlyUnderGuards ==
    last.via # 0 =>
        /\ last.stored # None => CachingPreconditions(last)
        /\ ~CachingPreconditions(last) =>
              /\ last.exc = None
              /\ last.ret.kind = "wrapper"
              /\ last.stored = None

\* heap[w] with its attribute name blanked
Unnamed(r) == [r EXCEPT !._name = None]

\* C9 as stated: no attribute access changes any field of an existing
\* Wrapper, the bound attribute name included.
C9_GetMutatesNothing ==
    [][phase = "attached" => \A w \in DOMAIN heap : heap'[w] = heap[w]]_vars

\* C9, amended: an attribute access leaves raw callable, config,
\* validate_return and validators of every existing Wrapper unchanged; the
\* only field it may write is the attribute name of the accessed Wrapper, from
\* unknown to the raw callable's own name, in a class-level access; a Bound
\* wrapper it builds is a new object, distinct from every existing one.
C9_GetMutatesOnlyName ==
    [][phase = "attached" =>
          /\ \A w \in DOMAIN heap :
                /\ Unnamed(heap'[w]) = Unnamed(heap[w])
                /\ heap'[w]._name # heap[w]._name =>
                      /\ heap[w]._name = None
                      /\ heap'[w]._name = heap[w].raw_function.name
                      /\ last'.kind = "class" /\ last'.via = w
          /\ Len(heap') > Len(heap) =>
                /\ last'.built = Len(heap')
                /\ last'.built \notin DOMAIN heap
                /\ last'.built # last'.via]_vars

\* a class-level access learned the name by the fallback and built a wrapper
C9_Witness ==
    /\ last.kind = "class" /\ last.built # 0 /\ last.exc = None
    /\ cls_dict[owner]["g"].kind = "wrapper"
    /\ heap[last.via]._name = "f"

(***************************************************************************)
(* Properties of calls (checked under SpecCall)                            *)
(***************************************************************************)
Called == call.w # 0
ArgsValid == ValidateValue(call.arg, heap[call.w]._config).ok
OutValid == ValidateValue(call.out, heap[call.w]._config).ok
IsAsync == heap[call.w].raw_function.coroutine
ValidatesReturn == heap[call.w]._validate_return

\* C4: a call whose arguments violate the argument schema raises
\* ValidationError to the caller; the underlying callable is not invoked (its
\* body does not run) and the return validator is not run.
C4_InvalidArgsNeverInvoke ==
    (Called /\ ~ArgsValid) =>
        /\ call.outcome = "ValidationError"
        /\ call.raised_at = "call"
        /\ call.events = <<"validate_args">>
        /\ call.task = "none"
        /\ effects = call.effects_before

\* a wrapper that validates returns was called with a non-numeric str
C4_Witness ==
    /\ Called /\ ~ArgsValid /\ ValidatesReturn
    /\ call.arg = StrVal(-1)
    /\ call.outcome = "ValidationError"

\* C5: with validate_return and a synchronous callable, a call runs argument
\* validation, then the callable, then return validation; an invalid return
\* value raises ValidationError after the callable has run, and the run is not
\* undone.
C5_SyncOrder ==
    (Called /\ ValidatesReturn /\ ~IsAsync) =>
        /\ call.events \in {<<"validate_args">>,
                            <<"validate_args", "body", "validate_return">>}
        /\ ArgsValid =>
              /\ call.events = <<"validate_args", "body", "validate_return">>
              /\ effects = call.effects_before + 1
        /\ (ArgsValid /\ ~OutValid) =>
              /\ call.outcome = "ValidationError"
              /\ call.raised_at = "call"
        /\ (ArgsValid /\ OutValid) =>
              /\ call.outcome = "returned"
              /\ call.value = ValidateValue(call.out, heap[call.w]._config).val

\* the body ran and its result was then rejected
C5_Witness ==
    /\ Called /\ ValidatesReturn /\ ~IsAsync
    /\ ArgsValid /\ ~OutValid
    /\ call.outcome = "ValidationError"
    /\ effects = call.effects_before + 1

C6_Calls ==
    (Called /\ ValidatesReturn /\ IsAsync /\ ArgsValid) =>
        /\ call.raised_at # "call"
        /\ call.task = "return_val_wrapper"
        /\ ~call.awaited =>
              /\ call.outcome = "pending"
              /\ call.events = <<"validate_args", "invoke">>
              /\ effects = call.effects_before
        /\ call.awaited =>
              /\ call.events = <<"validate_args", "invoke", "body", "validate_return">>
              /\ IF OutValid
                 THEN call.outcome = "returned"
                 ELSE call.outcome = "ValidationError" /\ call.raised_at = "await"

C6_StrategyOfConstruction ==
    \A w \in DOMAIN heap :
        (heap[w]._validate_return /\ heap[w].raw_function.coroutine)
            => heap[w].return_validator = "deferred"

\* C6: with validate_return and an asynchronous callable, a call with valid
\* arguments returns a pending computation without raising; return validation
\* runs only once that computation is awaited and the callable's own result
\* has been awaited, so an invalid return value raises ValidationError at
\* await time; the strategy is chosen at construction and no call changes it.
C6_AsyncDeferred ==
    /\ [](C6_Calls /\ C6_StrategyOfConstruction)
    /\ [][\A w \in DOMAIN heap :
             heap'[w].return_validator = heap[w].return_validator]_vars

\* the pending computation was awaited and its result rejected
C6_Witness ==
    /\ Called /\ ValidatesReturn /\ IsAsync /\ ArgsValid /\ ~OutValid
    /\ call.awaited
    /\ call.outcome = "ValidationError" /\ call.raised_at = "await"

\* C10 as stated: a call whose arguments satisfy the argument schema returns
\* the raw callable's result or its coerced equivalent and never raises
\* ValidationError, whether validate_return is false or true.
C10_ValidArgsNeverRaise ==
    (Called /\ ArgsValid) =>
        /\ call.outcome # "ValidationError"
        /\ call.outcome = "returned" =>
              call.value \in {call.out, ValidateValue(call.out, heap[call.w]._config).val}

\* C10, amended: a call whose arguments satisfy the argument schema returns
\* the raw callable's result verbatim when validate_return is false, and its
\* validator-coerced equivalent when validate_return is true and the result
\* satisfies the return schema; it raises ValidationError only when
\* validate_return is true and the result violates the return schema.  (For
\* an asynchronous callable "returns" and "raises" are at await time.)
C10_ValidArgsReturn ==
    (Called /\ ArgsValid) =>
        /\ call.outcome = "ValidationError" => (ValidatesReturn /\ ~OutValid)
        /\ (ValidatesReturn /\ ~OutValid /\ (IsAsync => call.awaited)) =>
              call.outcome = "ValidationError"
        /\ (~IsAsync \/ call.awaited) =>
              /\ ~ValidatesReturn =>
                    call.outcome = "returned" /\ call.value = call.out
              /\ (ValidatesReturn /\ OutValid) =>
                    /\ call.outcome = "returned"
                    /\ call.value = ValidateValue(call.out, heap[call.w]._config).val
        /\ (IsAsync /\ ~call.awaited) => call.outcome = "pending"

\* a numeric str came back from the function and was returned as an int
C10_Witness ==
    /\ Called /\ ArgsValid /\ ValidatesReturn /\ ~IsAsync
    /\ call.out = StrVal(4)
    /\ call.outcome = "returned" /\ call.value = IntVal(4)

(***************************************************************************)
(* Properties of concurrent accesses (checked under SpecConc)              *)
(***************************************************************************)
AllDone == \A t \in Threads : thr[t].pc = "done"

\* what is finally stored under the accessed name on the accessed instance,
\* or in the accessed class's own table
FinallyStored ==
    LET me == thr[1]
    IN  IF me.obj # None THEN obj_dict[me.obj][me.n] ELSE cls_dict[me.objtype][me.n]

\* C7: whatever the interleaving of concurrent first accesses of one wrapped
\* attribute of one instance or class, every access returns a Bound wrapper,
\* the returned wrappers are mutually equal, and the attribute finally stored,
\* if any, equals each of them.
C7_ConcurrentAccessesAgree ==
    (AllDone /\ \A t \in Threads : thr[t].w # 0) =>
        /\ \A t \in Threads :
              /\ thr[t].exc = None
              /\ thr[t].ret.kind = "wrapper"
        /\ \A t, u \in Threads :
              WrapperEq(heap[thr[t].ret.id], heap[thr[u].ret.id])
        /\ FinallyStored.kind # "absent" =>
              /\ FinallyStored.kind = "wrapper"
              /\ \A t \in Threads :
                    WrapperEq(heap[FinallyStored.id], heap[thr[t].ret.id])

(***************************************************************************)
(* Properties of equality and hashing (checked under SpecWrap)             *)
(***************************************************************************)
\* C8: two Wrappers are equal iff they wrap equal callables with equal configs
\* and the same validate_return; the hash of a Wrapper is the hash of its raw
\* callable, so equal Wrappers hash equally; wrapping one callable twice with
\* the same config and validate_return gives equal Wrappers of equal hash.
C8_EqualityAndHash ==
    \A i, j \in DOMAIN heap :
        /\ WrapperEq(heap[i], heap[j]) <=> made[i] = made[j]
        /\ WrapperEq(heap[i], heap[j]) => WrapperHash(heap[i]) = WrapperHash(heap[j])
        /\ WrapperHash(heap[i]) = CallableHash(made[i][1])

\* one callable wrapped twice alike, and once more with the other flag
C8_Witness ==
    \E i, j, k \in DOMAIN heap :
        /\ i # j /\ made[i] = made[j]
        /\ made[k][1] = made[i][1] /\ made[k][2] = made[i][2]
        /\ made[k][3] # made[i][3]

(***************************************************************************)
(* Properties of interrupted awaits (checked under SpecAwait)              *)
(***************************************************************************)
\* the exception the awaited coroutine raised in the latest call, if any
AwaitedRaised ==
    {exc \in AwaitExceptions : \E i \in DOMAIN call.events : call.events[i] = exc}

\* C11: under the asynchronous return-validation strategy, when the await of
\* the wrapped callable's result is cancelled or raises, that exception
\* reaches the awaiting caller and the return validator is not run.
C11_CancelSkipsValidation ==
    (Called /\ call.task = "return_val_wrapper" /\ AwaitedRaised # {}) =>
        /\ call.outcome \in AwaitedRaised
        /\ call.raised_at = "await"
        /\ call.value = NoValue
        /\ \A i \in DOMAIN call.events : call.events[i] # "validate_return"
        /\ call.events[Len(call.events)] = call.outcome

\* a validating coroutine wrapper was awaited and cancelled
C11_Witness ==
    /\ Called /\ ValidatesReturn /\ IsAsync
    /\ call.task = "return_val_wrapper"
    /\ call.awaited
    /\ call.outcome = "CancelledError"

(***************************************************************************)
(* Properties of the wrapper's identity (checked under SpecWrap)           *)
(***************************************************************************)
\* C12: wrapping a partial application of a function named N gives the
\* display name "partial(N)", the qualified name "partial(" + qualified name
\* of N + ")", and the module, annotations and doc of the underlying
\* function, the raw callable being the partial itself; wrapping another
\* callable gives that callable's own name, qualified name, module,
\* annotations and doc.
C12_PartialIdentity ==
    \A i \in DOMAIN heap :
        LET function == made[i][1]
            func == Func(function)
            id == heap[i].identity
        IN  /\ heap[i].raw_function = function
            /\ IF function.partial
               THEN /\ heap[i].raw_function # func
                    /\ id.name = "partial(" \o func.name \o ")"
                    /\ id.qualname = "partial(" \o func.qualroot \o "." \o func.name \o ")"
                    /\ id.module = AttrModule(func)
                    /\ id.annotations = AttrAnnotations(func)
                    /\ id.doc = AttrDoc(func)
               ELSE /\ id.name = function.name
                    /\ id.qualname = function.qualroot \o "." \o function.name
                    /\ id.module = AttrModule(function)
                    /\ id.annotations = AttrAnnotations(function)
                    /\ id.doc = AttrDoc(function)

\* a partial of A.f and A.f itself have both been wrapped
C12_Witness ==
    \E i, j \in DOMAIN heap :
        /\ made[i][1].partial
        /\ heap[i].identity.name = "partial(f)"
        /\ heap[i].identity.qualname = "partial(A.f)"
        /\ heap[i].identity.doc = "doc of A.f"
        /\ heap[i].identity.module = "app"
        /\ ~made[j][1].partial
        /\ heap[j].identity.name = "f"
        /\ heap[j].identity.qualname = "A.f"

(***************************************************************************)
(* Caching against plain binding                                           *)
(***************************************************************************)
\* the instance an access went through, None for a class-level access
AccessObj(a) == IF a.kind = "instance" THEN a.target ELSE None

\* C13: the value every access of a wrapped attribute returns is a Wrapper
\* equal in (bound raw callable, config, validate_return) to the Wrapper the
\* same access returns when nothing is cached and nothing short-circuits, that
\* is to the binding of the attached wrapper to the accessing instance or
\* class; the class-level re-resolution never returns anything else.
C13_CachedEqualsUncached ==
    LET e == MROLookup(cls_dict, AccessType(last), last.name)
    IN  (last.kind # "none" /\ e.kind = "wrapper") =>
            /\ last.exc = None
            /\ last.ret.kind = "wrapper"
            /\ WrapperEq(heap[last.ret.id], BoundWrapper(e.id, AccessObj(last)))

C14_NotifiedNameKept ==
    /\ last.kind = "class" /\ last.via # 0
    /\ heap[last.via]._name # None
    /\ heap[last.via]._name # heap[last.via].raw_function.name

(***************************************************************************)
(* Failure of the construction during an access                            *)
(***************************************************************************)
\* C15: when the construction of the Bound wrapper fails during an access,
\* the access raises that error and returns no wrapper, nothing is stored on
\* the instance or on the class and no wrapper comes into being, so that a
\* later access finds the tables as they were; no table ever holds a wrapper
\* that was not completely constructed.
C15_FailedBuildStoresNothing ==
    /\ [][last'.exc \in BuildExceptions =>
            /\ last'.ret = Absent
            /\ last'.built = 0 /\ last'.stored = None
            /\ obj_dict' = obj_dict /\ cls_dict' = cls_dict
            /\ Len(heap') = Len(heap)
            /\ \A w \in DOMAIN heap : Unnamed(heap'[w]) = Unnamed(heap[w])]_vars
    /\ [](\A o \in Objs, t \in Types, n \in Names :
            /\ obj_dict[o][n].kind = "wrapper" => obj_dict[o][n].id \in DOMAIN heap
            /\ cls_dict[t][n].kind = "wrapper" => cls_dict[t][n].id \in DOMAIN heap)

\* an access failed in the construction and the same access, repeated,
\* succeeded with a newly built wrapper
C15_Witness ==
    /\ prev.exc \in BuildExceptions /\ prev.ret = Absent
    /\ last.kind = prev.kind /\ last.target = prev.target /\ last.name = prev.name
    /\ last.via = prev.via
    /\ last.exc = None /\ last.built = Len(heap) /\ last.ret = WrapperRef(last.built)

(***************************************************************************)
(* Skip-on-conflict                                                        *)
(***************************************************************************)
\* C16: a class-level access changes the type's own attribute table only
\* where the table had no entry under the wrapper's attribute name, and then
\* only by adding the wrapper it built under that name; an entry that exists
\* under that name, the attached Unbound wrapper included, is returned as
\* it is, nothing is built, and no entry of any type is ever overwritten.
C16_SkipOnConflict ==
    [][(phase = "attached" /\ last'.kind = "class" /\ last'.via # 0) =>
          LET t    == last'.target
              name == heap'[last'.via]._name
          IN  /\ cls_dict' # cls_dict =>
                    /\ cls_dict[t][name].kind = "absent"
                    /\ cls_dict' = [cls_dict EXCEPT ![t][name] = WrapperRef(last'.built)]
              /\ cls_dict[t][name].kind # "absent" =>
                    /\ last'.ret = cls_dict[t][name]
                    /\ last'.exc = None /\ last'.built = 0
                    /\ Len(heap') = Len(heap)
              /\ \A u \in Types, n \in Names :
                    cls_dict[u][n].kind # "absent" => cls_dict'[u][n] = cls_dict[u][n]]_vars

\* a class-level access on the declaring type found the attached Unbound
\* wrapper under its name and returned that very object
C16_Witness ==
    /\ last.kind = "class" /\ last.target = owner /\ last.via = 1
    /\ cls_dict[owner][heap[1]._name] = WrapperRef(1)
    /\ last.ret = WrapperRef(1) /\ last.built = 0
    /\ Len(heap) > 1

(***************************************************************************)
(* Termination of an access                                                *)
(***************************************************************************)
\* the steps an access at position pc has still to take, at most
StepsLeft(pc) ==
    CASE pc = "lookup" -> 4
      [] pc = "enter"  -> 3
      [] pc = "bind"   -> 2
      [] pc = "cache"  -> 1
      [] OTHER         -> 0

\* the threads whose access has constructed a wrapper
Builders == {t \in Threads : thr[t].result # 0}

\* C17: every access ends within the four steps lookup, class-level branch,
\* construction, store, none of them taken twice: the re-resolution hands the
\* type's stored entry back without running __get__ again; an access constructs
\* at most one wrapper, and every wrapper besides the attached one was
\* constructed by exactly one access.
C17_AccessTerminates ==
    /\ [](\A t \in Threads : thr[t].steps + StepsLeft(thr[t].pc) <= StepsLeft("lookup"))
    /\ [](/\ Len(heap) = 1 + Cardinality(Builders)
          /\ \A t, u \in Builders : thr[t].result = thr[u].result => t = u)
    /\ [][\A t \in Threads :
            /\ (thr'[t] # thr[t] /\ thr[t].pc # "idle") =>
                  /\ thr'[t].pc # thr[t].pc
                  /\ thr'[t].steps = thr[t].steps + 1
            /\ thr[t].pc = "done" => thr'[t] = thr[t]
            /\ thr[t].result # 0 => thr'[t].result = thr[t].result]_vars

\* a class-level access ended at the re-resolution, in two steps, with the
\* attached wrapper it read from the type's table, and built nothing
C17_Witness ==
    \E t \in Threads :
        /\ thr[t].pc = "done" /\ thr[t].obj = None
        /\ thr[t].steps = 2 /\ thr[t].result = 0
        /\ thr[t].ret = WrapperRef(thr[t].w)

====================================================================
